---- MODULE Spec2Model ----
(***************************************************************************)
(* Model of the messaging feature of api-trackit: the MessageService       *)
(* (src/src/services/message.service.ts) working on the Message collection *)
(* declared by messageSchema (models/message) and on the User collection.  *)
(*                                                                         *)
(* Identifiers.  A request carries identifiers as strings; the store holds *)
(* ObjectIds.  Each model string below stands for one spelling:            *)
(*   "u1" "u2" "u3"   24-hex strings, the _id of a possible user           *)
(*   "U1"             the upper-case spelling of the hex string of u1      *)
(*   "m1" "m2" ...    24-hex strings, the _id given to the n-th message    *)
(*   "zz"             a string that is not a well-formed ObjectId          *)
(* Text is a sequence of characters, so that trim() is computed.           *)
(***************************************************************************)
EXTENDS Integers, Sequences, FiniteSets, TLC

\* ------------------------------------------------------------------ bounds
MaxMsgs == 2      \* messages ever created (fresh _id values m1..)
MaxTime == 1      \* values of the clock read by new Date()

\* ------------------------------------------------------------ input domain
WhiteSpace == {" "}

\* the content strings of requests: blank, padded, plain
Strings == {<<" ">>, <<" ", "a", " ">>, <<"a", " ", "b">>}

\* a JavaScript value received as content: a string, undefined or a number
ContentInputs ==
    {[type |-> "string", str |-> s, num |-> 0] : s \in Strings}
        \cup {[type |-> "undefined", str |-> <<>>, num |-> 0],
              [type |-> "number", str |-> <<>>, num |-> 7]}

UserIds   == {"u1", "u2", "u3"}
AllMsgIds == <<"m1", "m2", "m3", "m4">>
MsgIds    == {AllMsgIds[i] : i \in 1..MaxMsgs}
UserIdInputs == UserIds \cup {"U1", "zz"}
MsgIdInputs  == MsgIds \cup {"zz"}

VARIABLES users,     \* User collection: _id -> "available" | "unavailable" | "absent"
          messages,  \* Message collection: _id -> stored document
          nextId,    \* index of the next fresh message _id
          now,       \* the clock
          removed,   \* documents returned by successful deleteMessage calls: _id -> sender
          last       \* the last service call and its outcome
vars == <<users, messages, nextId, now, removed, last>>

\* ------------------------------------------------------------ error texts
\* the messages of the thrown errors, written without accents
ErrContent     == "El contenido del mensaje es requerido"
ErrSender      == "Remitente no encontrado o no disponible"
ErrReceiver    == "Destinatario no encontrado o no disponible"
ErrMsgId       == "ID de mensaje invalido"
ErrSenderId    == "ID de remitente invalido"
ErrUpdate      == "Mensaje no encontrado o no tienes permiso para editarlo"
ErrDelete      == "Mensaje no encontrado o no tienes permiso para eliminarlo"
ErrCast        == "Cast to ObjectId failed"
NoError        == "none"

\* ------------------------------------------------------ pure JS / mongoose
RECURSIVE TrimStart(_)
TrimStart(s) ==
    IF s = <<>> THEN s
    ELSE IF Head(s) \in WhiteSpace THEN TrimStart(Tail(s)) ELSE s

RECURSIVE TrimEnd(_)
TrimEnd(s) ==
    IF s = <<>> THEN s
    ELSE IF s[Len(s)] \in WhiteSpace THEN TrimEnd(SubSeq(s, 1, Len(s) - 1)) ELSE s

Trim(s) == TrimEnd(TrimStart(s))

\* JavaScript truthiness of a content value
Truthy(c) ==
    IF c.type = "string" THEN c.str # <<>>
    ELSE IF c.type = "number" THEN c.num # 0
    ELSE FALSE

\* JavaScript undefined: the value of a parameter the request does not carry
Undefined == "undefined"

\* mongoose.Types.ObjectId.isValid
IsValid(s) == s \notin {"zz", Undefined}

\* the ObjectId a well-formed string is cast to (hex digits are case-insensitive)
CastId(s) == IF s = "U1" THEN "u1" ELSE s

\* ---------------------------------------------------------------- schemas
\* paths declared by messageSchema (_id is implicit)
SchemaPaths == {"_id", "content", "sender", "receiver", "read", "createdAt"}

\* strict schema: an update keeps only the paths the schema declares
StrictCast(update) ==
    [f \in (DOMAIN update) \cap SchemaPaths |-> update[f]]

\* $set of the (cast) update on a stored document
ApplySet(doc, update) ==
    [f \in (DOMAIN doc) \cup (DOMAIN update) |->
        IF f \in DOMAIN update THEN update[f] ELSE doc[f]]

\* runValidators: content is { type: String, required: true }
RequiredOk(update) ==
    "content" \in DOMAIN update => update["content"] # <<>>

\* populate(path, 'name email'): the reference becomes the projected user
PopulateRef(u) == [_id |-> u]
Populate(doc) ==
    [doc EXCEPT !["sender"] = PopulateRef(doc["sender"]),
                !["receiver"] = PopulateRef(doc["receiver"])]

\* ------------------------------------------------------- service: helpers
\* variant: the guard without the check of the trimmed length
ContentInvalidNoTrim(c) ==
    \/ ~Truthy(c)
    \/ c.type # "string"

\* the guard on content shared by sendMessage and updateMessage
ContentInvalid(c) ==
    \/ ~Truthy(c)
    \/ c.type # "string"
    \/ Len(Trim(c.str)) = 0

\* variant: the lookup without the available: true condition
UserFoundAnyAvailability(id) ==
    /\ CastId(id) \in UserIds
    /\ users[CastId(id)] # "absent"

\* UserModel.findOne({ _id: id, available: true }) for a well-formed id
UserFound(id) ==
    /\ CastId(id) \in UserIds
    /\ users[CastId(id)] = "available"

\* variant: sender and receiver exchanged in the new document
NewMessageSwapped(id, senderId, receiverId, content, t) ==
    [_id       |-> id,
     content   |-> Trim(content.str),
     sender    |-> CastId(receiverId),
     receiver  |-> CastId(senderId),
     read      |-> FALSE,
     createdAt |-> t]

\* variant: the content stored as received
NewMessageUntrimmed(id, senderId, receiverId, content, t) ==
    [_id       |-> id,
     content   |-> content.str,
     sender    |-> CastId(senderId),
     receiver  |-> CastId(receiverId),
     read      |-> FALSE,
     createdAt |-> t]

\* new MessageModel({...}) of sendMessage
NewMessage(id, senderId, receiverId, content, t) ==
    [_id       |-> id,
     content   |-> Trim(content.str),
     sender    |-> CastId(senderId),
     receiver  |-> CastId(receiverId),
     read      |-> FALSE,
     createdAt |-> t]

\* variant: the query with the first direction only
PairFilterOneWay(d, userId1, userId2) ==
    d["sender"] = CastId(userId1) /\ d["receiver"] = CastId(userId2)

\* the query of getMessagesBetweenUsers
PairFilter(d, userId1, userId2) ==
    \/ d["sender"] = CastId(userId1) /\ d["receiver"] = CastId(userId2)
    \/ d["sender"] = CastId(userId2) /\ d["receiver"] = CastId(userId1)

\* variant: ascending sort
SortOrderAscending(d1, d2) == d1["createdAt"] <= d2["createdAt"]

\* .sort({ createdAt: -1 }): the order allowed between two neighbours
SortOrder(d1, d2) == d1["createdAt"] >= d2["createdAt"]

\* variant: the match criteria without the owner
UpdateFilterAnySender(d, messageId, senderId) ==
    d["_id"] = CastId(messageId)

\* the match criteria of findOneAndUpdate
UpdateFilter(d, messageId, senderId) ==
    d["_id"] = CastId(messageId) /\ d["sender"] = CastId(senderId)

\* variant: the new content stored as received
UpdateSetUntrimmed(newContent, t) ==
    [content |-> newContent.str, updatedAt |-> t]

\* variant: the update stamps createdAt as well
UpdateSetStampsCreatedAt(newContent, t) ==
    [content |-> Trim(newContent.str), updatedAt |-> t, createdAt |-> t]

\* the $set document of updateMessage
UpdateSet(newContent, t) ==
    [content |-> Trim(newContent.str), updatedAt |-> t]

\* variant: the match criteria without the owner
DeleteFilterAnySender(d, messageId, senderId) ==
    d["_id"] = CastId(messageId)

\* the match criteria of findOneAndDelete
DeleteFilter(d, messageId, senderId) ==
    d["_id"] = CastId(messageId) /\ d["sender"] = CastId(senderId)

Docs(store) == {store[i] : i \in DOMAIN store}

\* newMessage.save(): the document is inserted under its _id
Save(store, doc) ==
    [i \in (DOMAIN store) \cup {doc["_id"]} |->
        IF i = doc["_id"] THEN doc ELSE store[i]]

\* findOneAndUpdate: the matched document is replaced by the updated one
Replace(store, doc) == [store EXCEPT ![doc["_id"]] = doc]

\* variant: the matched document is read and stays
RemoveNothing(store, doc) == store

\* findOneAndDelete: the matched document leaves the collection
Remove(store, doc) ==
    [i \in (DOMAIN store) \ {doc["_id"]} |-> store[i]]

\* all orders in which find().sort() may return the documents of set S
SortedSeqs(S) ==
    {q \in [1..Cardinality(S) -> S] :
        /\ \A i, j \in DOMAIN q : i # j => q[i] # q[j]
        /\ \A i \in DOMAIN q : i < Len(q) => SortOrder(q[i], q[i + 1])}

Outcome(ok, err, docs, store) ==
    [ok |-> ok, err |-> err, docs |-> docs, store |-> store]

Failure(err, store) == Outcome(FALSE, err, <<>>, store)

\* ---------------------------------------------------- service: operations
\* MessageService.sendMessage; id is the fresh _id, t the value of new Date()
sendMessage(store, senderId, receiverId, content, id, t) ==
    IF ContentInvalid(content) THEN Failure(ErrContent, store)
    ELSE IF ~IsValid(senderId) \/ ~IsValid(receiverId) THEN Failure(ErrCast, store)
    ELSE IF ~UserFound(senderId) THEN Failure(ErrSender, store)
    ELSE IF ~UserFound(receiverId) THEN Failure(ErrReceiver, store)
    ELSE LET doc == NewMessage(id, senderId, receiverId, content, t)
         IN  Outcome(TRUE, NoError, <<doc>>, Save(store, doc))

\* MessageService.getMessagesBetweenUsers: the set of possible results
getMessagesBetweenUsers(store, userId1, userId2) ==
    IF ~IsValid(userId1) \/ ~IsValid(userId2) THEN {Failure(ErrCast, store)}
    ELSE LET found == {d \in Docs(store) : PairFilter(d, userId1, userId2)}
         IN  {Outcome(TRUE, NoError, [i \in DOMAIN q |-> Populate(q[i])], store) :
                 q \in SortedSeqs(found)}

\* MessageService.updateMessage; t is the value of new Date()
updateMessage(store, messageId, newContent, senderId, t) ==
    IF ~IsValid(messageId) THEN Failure(ErrMsgId, store)
    ELSE IF ContentInvalid(newContent) THEN Failure(ErrContent, store)
    ELSE IF ~IsValid(senderId) THEN Failure(ErrSenderId, store)
    ELSE LET found  == {d \in Docs(store) : UpdateFilter(d, messageId, senderId)}
             update == StrictCast(UpdateSet(newContent, t))
         IN  IF found = {} THEN Failure(ErrUpdate, store)
             ELSE IF ~RequiredOk(update) THEN Failure(ErrContent, store)
             ELSE LET old == CHOOSE d \in found : TRUE
                      new == ApplySet(old, update)
                  IN  Outcome(TRUE, NoError, <<Populate(new)>>, Replace(store, new))

\* MessageService.deleteMessage
deleteMessage(store, messageId, senderId) ==
    IF ~IsValid(messageId) THEN Failure(ErrMsgId, store)
    ELSE IF ~IsValid(senderId) THEN Failure(ErrSenderId, store)
    ELSE LET found == {d \in Docs(store) : DeleteFilter(d, messageId, senderId)}
         IN  IF found = {} THEN Failure(ErrDelete, store)
             ELSE LET old == CHOOSE d \in found : TRUE
                  IN  Outcome(TRUE, NoError, <<Populate(old)>>, Remove(store, old))

\* ------------------------------------------------------------- the system
NoContent == [type |-> "undefined", str |-> <<>>, num |-> 0]

Call(op, id1, id2, content, r) ==
    [op |-> op, id1 |-> id1, id2 |-> id2, content |-> content,
     ok |-> r.ok, err |-> r.err, docs |-> r.docs]

\* the values new Date() may return: the clock never runs backwards
Clock == {t \in now..(now + 1) : t <= MaxTime}

Idle == Call("idle", "zz", "zz", NoContent, Failure(NoError, <<>>))

UserConfigs ==
    {[u \in UserIds |-> IF u = "u3" THEN c ELSE "available"] :
        c \in {"unavailable", "absent"}}

Init ==
    /\ users \in UserConfigs
    /\ messages = <<>>
    /\ nextId = 1
    /\ now = 0
    /\ removed = <<>>
    /\ last = Idle

\* a call of sendMessage(senderId, receiverId, content)
SendMessage(senderId, receiverId, content) ==
    /\ last.op = "idle"
    /\ \E t \in Clock :
        LET r == sendMessage(messages, senderId, receiverId, content,
                             AllMsgIds[nextId], t)
        IN  /\ r.ok => nextId <= MaxMsgs
            /\ messages' = r.store
            /\ nextId' = IF r.ok THEN nextId + 1 ELSE nextId
            /\ now' = IF r.ok THEN t ELSE now
            /\ last' = Call("send", senderId, receiverId, content, r)
            /\ UNCHANGED <<users, removed>>

\* a call of getMessagesBetweenUsers(userId1, userId2)
GetMessagesBetweenUsers(userId1, userId2) ==
    /\ last.op = "idle"
    /\ \E r \in getMessagesBetweenUsers(messages, userId1, userId2) :
        /\ last' = Call("get", userId1, userId2, NoContent, r)
        /\ messages' = r.store
        /\ UNCHANGED <<users, nextId, now, removed>>

\* a call of updateMessage(messageId, newContent, senderId)
UpdateMessage(messageId, newContent, senderId) ==
    /\ last.op = "idle"
    /\ \E t \in Clock :
        LET r == updateMessage(messages, messageId, newContent, senderId, t)
        IN  /\ messages' = r.store
            /\ now' = IF r.ok THEN t ELSE now
            /\ last' = Call("update", messageId, senderId, newContent, r)
            /\ UNCHANGED <<users, nextId, removed>>

\* a call of deleteMessage(messageId, senderId)
DeleteMessage(messageId, senderId) ==
    /\ last.op = "idle"
    /\ LET r == deleteMessage(messages, messageId, senderId)
       IN  /\ messages' = r.store
           /\ removed' = IF r.ok
                         THEN [i \in (DOMAIN removed) \cup {r.docs[1]["_id"]} |->
                                  IF i = r.docs[1]["_id"]
                                  THEN r.docs[1]["sender"]["_id"]
                                  ELSE removed[i]]
                         ELSE removed
           /\ last' = Call("delete", messageId, senderId, NoContent, r)
           /\ UNCHANGED <<users, nextId, now>>

\* the caller has taken the outcome of the call; the next call may start
Respond ==
    /\ last.op # "idle"
    /\ last' = Idle
    /\ UNCHANGED <<users, messages, nextId, now, removed>>

Next ==
    \/ \E s, r \in UserIdInputs, c \in ContentInputs : SendMessage(s, r, c)
    \/ \E a, b \in UserIdInputs : GetMessagesBetweenUsers(a, b)
    \/ \E m \in MsgIdInputs, c \in ContentInputs, s \in UserIdInputs :
           UpdateMessage(m, c, s)
    \/ \E m \in MsgIdInputs, s \in UserIdInputs : DeleteMessage(m, s)
    \/ Respond

Spec == Init /\ [][Next]_vars

\* ================================================================ claims
\* the failure kinds of the service
NotFoundErrors   == {ErrSender, ErrReceiver, ErrUpdate, ErrDelete}
ValidationErrors == {ErrContent, ErrMsgId, ErrSenderId}

\* the identifier is well-formed and names an existing available user
Available(id) ==
    /\ IsValid(id)
    /\ CastId(id) \in UserIds
    /\ users[CastId(id)] = "available"
\* the content is a string with a character that is not white space
NonBlank(c) == c.type = "string" /\ Trim(c.str) # <<>>

\* the stored message a request identifier names, and whether there is one
Stored(store, messageId) ==
    IsValid(messageId) /\ CastId(messageId) \in DOMAIN store
\* a request identifier names the owner of the stored message
IsOwner(store, messageId, senderId) ==
    IsValid(senderId) /\ store[CastId(messageId)]["sender"] = CastId(senderId)
\* the call of this step is an update or a delete by a well-formed non-owner
\* of a message stored before the call
NonOwnerCall(c, store) ==
    /\ c.op \in {"update", "delete"}
    /\ Stored(store, c.id1)
    /\ IsValid(c.id2)
    /\ ~IsOwner(store, c.id1, c.id2)
NotFoundOf(op) == IF op = "update" THEN ErrUpdate ELSE ErrDelete

\* a step changes or removes message i only in an update or delete call by its owner
OnlyOwnerChanges ==
    \A i \in DOMAIN messages :
        (i \notin DOMAIN messages' \/ messages'[i] # messages[i])
            => /\ last'.op \in {"update", "delete"}
               /\ IsValid(last'.id1) /\ CastId(last'.id1) = i
               /\ IsOwner(messages, last'.id1, last'.id2)

\* C1 as stated: every update (whatever its content) and every delete of a
\* stored message by a well-formed senderId other than the stored sender fails
\* with the not-found error and leaves the collection unchanged, and a message
\* is changed or removed only by a call of its owner.
C1_Original ==
    [][/\ NonOwnerCall(last', messages)
            => /\ ~last'.ok
               /\ last'.err = NotFoundOf(last'.op)
               /\ messages' = messages
       /\ OnlyOwnerChanges]_vars

\* C1 amended: a message is changed or removed only by an update or delete call
\* of its owner; a delete, and an update with non-blank content, by a
\* well-formed non-owner fails with the not-found error; an update with blank
\* content by a non-owner fails with the content validation error; all of them
\* leave the collection unchanged.
C1_OwnerOnly ==
    [][/\ NonOwnerCall(last', messages)
            => /\ ~last'.ok
               /\ last'.err = IF last'.op = "update" /\ ~NonBlank(last'.content)
                              THEN ErrContent
                              ELSE NotFoundOf(last'.op)
               /\ messages' = messages
       /\ OnlyOwnerChanges]_vars

\* an update with non-blank content by a non-owner of a stored message was
\* answered not-found
C1_Witness ==
    /\ last.op = "update"
    /\ NonOwnerCall(last, messages)
    /\ NonBlank(last.content)
    /\ last.err = ErrUpdate

\* ---------------------------------------------------------------- C2
\* a message removed earlier, as a request identifier names it
Removed(messageId) ==
    IsValid(messageId) /\ CastId(messageId) \in DOMAIN removed
\* the call is made as the sender of the message removed earlier
ByFormerOwner(c) ==
    IsValid(c.id2) /\ CastId(c.id2) = removed[CastId(c.id1)]

\* a delete of a stored message by its owner succeeds, returns the stored
\* record and removes it (whatever calls of non-owners came before)
OwnerDeleteSucceeds ==
    (last'.op = "delete" /\ Stored(messages, last'.id1)
        /\ IsOwner(messages, last'.id1, last'.id2))
        => /\ last'.ok
           /\ last'.docs = <<Populate(messages[CastId(last'.id1)])>>
           /\ CastId(last'.id1) \notin DOMAIN messages'
           /\ \A i \in DOMAIN messages' : messages'[i] = messages[i]

\* C2 as stated: the owner's delete of a stored message succeeds and returns
\* the removed record, and every later delete and every later update (whatever
\* its content) of that messageId by the true sender fails with the not-found
\* error.
C2_Original ==
    [][/\ OwnerDeleteSucceeds
       /\ (last'.op \in {"update", "delete"} /\ Removed(last'.id1)
              /\ ByFormerOwner(last'))
            => /\ ~last'.ok
               /\ last'.err = NotFoundOf(last'.op)]_vars

\* C2 amended: the owner's delete of a stored message succeeds, returns the
\* removed record and removes it, also after deletes by non-owners; every later
\* delete of that messageId with a well-formed senderId, and every later update
\* of it with a well-formed senderId and non-blank content, fails with the
\* not-found error (a later update with blank content fails with the content
\* validation error); no later call changes the collection.
C2_DeleteTwice ==
    [][/\ OwnerDeleteSucceeds
       /\ (last'.op \in {"update", "delete"} /\ Removed(last'.id1)
              /\ IsValid(last'.id2))
            => /\ ~last'.ok
               /\ last'.err = IF last'.op = "update" /\ ~NonBlank(last'.content)
                              THEN ErrContent
                              ELSE NotFoundOf(last'.op)
               /\ messages' = messages]_vars

\* the second delete by the true sender was answered not-found
C2_Witness ==
    /\ last.op = "delete"
    /\ Removed(last.id1)
    /\ ByFormerOwner(last)
    /\ ~last.ok
    /\ last.err = ErrDelete

\* ---------------------------------------------------------------- C3
\* C3: a sendMessage call whose content is missing, not a string or blank
\* fails with the content validation error, whatever the two identifiers
\* are, and leaves the collection unchanged.
C3_BlankContentRejected ==
    [][(last'.op = "send"
          /\ (last'.content.type # "string" \/ Trim(last'.content.str) = <<>>))
            => /\ ~last'.ok
               /\ last'.err = ErrContent
               /\ last'.err \in ValidationErrors
               /\ messages' = messages
               /\ nextId' = nextId]_vars

\* a whitespace-only content between two available users was rejected
C3_Witness ==
    /\ last.op = "send"
    /\ last.content.type = "string"
    /\ last.content.str # <<>>
    /\ Trim(last.content.str) = <<>>
    /\ Available(last.id1) /\ Available(last.id2)
    /\ last.err = ErrContent

\* ---------------------------------------------------------------- C4
\* C4 as stated: with non-blank content, a sendMessage call whose sender or
\* receiver does not exist or is unavailable fails with the not-found error
\* and writes nothing; the sender's error when the sender is not found, the
\* receiver's error when only the receiver is not found.
C4_Original ==
    [][(last'.op = "send" /\ NonBlank(last'.content)
          /\ (~Available(last'.id1) \/ ~Available(last'.id2)))
            => /\ ~last'.ok
               /\ last'.err = IF ~Available(last'.id1) THEN ErrSender ELSE ErrReceiver
               /\ messages' = messages]_vars

\* C4 amended: with non-blank content and two well-formed identifiers, a
\* sendMessage call whose sender or receiver does not exist or is unavailable
\* fails with the not-found error and writes nothing; the sender's error when
\* the sender lookup misses (also when both miss), the receiver's error when
\* only the receiver lookup misses.  With a malformed identifier the call
\* fails with the cast error of the lookup and writes nothing.
C4_UnavailableRejected ==
    [][(last'.op = "send" /\ NonBlank(last'.content)
          /\ (~Available(last'.id1) \/ ~Available(last'.id2)))
            => /\ ~last'.ok
               /\ last'.err =
                     IF ~IsValid(last'.id1) \/ ~IsValid(last'.id2) THEN ErrCast
                     ELSE IF ~Available(last'.id1) THEN ErrSender
                     ELSE ErrReceiver
               /\ (IsValid(last'.id1) /\ IsValid(last'.id2))
                     => last'.err \in NotFoundErrors
               /\ messages' = messages
               /\ nextId' = nextId]_vars

\* both lookups missed and the sender's error was reported
C4_Witness ==
    /\ last.op = "send"
    /\ NonBlank(last.content)
    /\ IsValid(last.id1) /\ IsValid(last.id2)
    /\ ~Available(last.id1) /\ ~Available(last.id2)
    /\ last.err = ErrSender

\* ---------------------------------------------------------------- C5
\* C5: a sendMessage call with non-blank content between two existing
\* available users succeeds, returns the stored record, whose content is the
\* trimmed input, whose sender and receiver are the two users, with
\* read = false and createdAt the current time; the collection gains exactly
\* this record and every other stored message is unchanged.
C5_SendStores ==
    [][(last'.op = "send" /\ NonBlank(last'.content)
          /\ Available(last'.id1) /\ Available(last'.id2))
            => /\ last'.ok
               /\ Len(last'.docs) = 1
               /\ LET d == last'.docs[1]
                  IN  /\ d["content"] = Trim(last'.content.str)
                      /\ d["sender"] = CastId(last'.id1)
                      /\ d["receiver"] = CastId(last'.id2)
                      /\ d["read"] = FALSE
                      /\ "createdAt" \in DOMAIN d
                      /\ d["createdAt"] = now'
                      /\ d["_id"] \notin DOMAIN messages
                      /\ DOMAIN messages' = (DOMAIN messages) \cup {d["_id"]}
                      /\ messages'[d["_id"]] = d
                      /\ \A i \in DOMAIN messages : messages'[i] = messages[i]]_vars

\* a padded content was sent from one user to another while a message was
\* already stored
C5_Witness ==
    /\ last.op = "send"
    /\ last.ok
    /\ last.content.str # Trim(last.content.str)
    /\ CastId(last.id1) # CastId(last.id2)
    /\ Cardinality(DOMAIN messages) = 2

\* ---------------------------------------------------------------- C6
Range(q) == {q[i] : i \in DOMAIN q}
\* the stored messages exchanged between users a and b, in either direction
Exchanged(a, b) ==
    {d \in Docs(messages) :
        \/ d["sender"] = a /\ d["receiver"] = b
        \/ d["sender"] = b /\ d["receiver"] = a}
\* the returned record d shows the stored message of its _id
Shows(d) ==
    /\ d["_id"] \in DOMAIN messages
    /\ d["content"] = messages[d["_id"]]["content"]
    /\ d["sender"]["_id"] = messages[d["_id"]]["sender"]
    /\ d["receiver"]["_id"] = messages[d["_id"]]["receiver"]
    /\ d["read"] = messages[d["_id"]]["read"]
    /\ d["createdAt"] = messages[d["_id"]]["createdAt"]

\* C6: getMessagesBetweenUsers(A, B) for two well-formed user identifiers
\* succeeds and returns exactly the stored messages exchanged between A and B
\* in either direction, each once; every result of the call with the arguments
\* exchanged holds the same set; a pair without messages gets the empty
\* sequence.
C6_PairSymmetric ==
    (last.op = "get" /\ IsValid(last.id1) /\ IsValid(last.id2))
        => /\ last.ok
           /\ \A d \in Range(last.docs) : Shows(d)
           /\ {d["_id"] : d \in Range(last.docs)}
                 = {d["_id"] : d \in Exchanged(CastId(last.id1), CastId(last.id2))}
           /\ Len(last.docs) = Cardinality(Exchanged(CastId(last.id1), CastId(last.id2)))
           /\ \A r \in getMessagesBetweenUsers(messages, last.id2, last.id1) :
                 r.ok /\ Range(r.docs) = Range(last.docs)
           /\ Exchanged(CastId(last.id1), CastId(last.id2)) = {} => last.docs = <<>>

\* the result holds one message of each direction between two different users
C6_Witness ==
    /\ last.op = "get"
    /\ CastId(last.id1) # CastId(last.id2)
    /\ Len(last.docs) = 2
    /\ last.docs[1]["sender"]["_id"] = last.docs[2]["receiver"]["_id"]
    /\ last.docs[1]["sender"]["_id"] # last.docs[2]["sender"]["_id"]

\* ---------------------------------------------------------------- C7
\* C7: the sequence returned by getMessagesBetweenUsers is ordered by
\* createdAt descending, in every reachable state of the collection.
C7_SortedDescending ==
    (last.op = "get" /\ last.ok)
        => \A i, j \in DOMAIN last.docs :
              i < j => last.docs[i]["createdAt"] >= last.docs[j]["createdAt"]

\* the result holds two messages created at different times
C7_Witness ==
    /\ last.op = "get"
    /\ Len(last.docs) = 2
    /\ last.docs[1]["createdAt"] > last.docs[2]["createdAt"]

\* ---------------------------------------------------------------- C8
\* C8: an updateMessage call with well-formed ids, non-blank content and the
\* stored sender of a stored message succeeds; the returned record and the
\* stored message have the trimmed new content; no other message changes and
\* none is added or removed.
C8_OwnerUpdate ==
    [][(last'.op = "update" /\ NonBlank(last'.content)
          /\ Stored(messages, last'.id1) /\ IsOwner(messages, last'.id1, last'.id2))
            => /\ last'.ok
               /\ Len(last'.docs) = 1
               /\ last'.docs[1]["_id"] = CastId(last'.id1)
               /\ last'.docs[1]["content"] = Trim(last'.content.str)
               /\ DOMAIN messages' = DOMAIN messages
               /\ messages'[CastId(last'.id1)]["content"] = Trim(last'.content.str)
               /\ \A i \in DOMAIN messages :
                     i # CastId(last'.id1) => messages'[i] = messages[i]]_vars

\* the owner updated one of two stored messages with a padded content
C8_Witness ==
    /\ last.op = "update"
    /\ last.ok
    /\ last.content.str # Trim(last.content.str)
    /\ Cardinality(DOMAIN messages) = 2

\* ---------------------------------------------------------------- C9
HasUpdatedAt(d) == "updatedAt" \in DOMAIN d

\* C9: a stored message has updatedAt exactly when an updateMessage call on it
\* has succeeded: a step leaves a message with updatedAt iff it had it before
\* or the step is a successful update of it; after a successful update the
\* stored and the returned record carry updatedAt, and updatedAt >= createdAt.
C9_UpdatedAtIffUpdated ==
    [][/\ \A i \in DOMAIN messages' :
             HasUpdatedAt(messages'[i])
                <=> \/ i \in DOMAIN messages /\ HasUpdatedAt(messages[i])
                    \/ last'.op = "update" /\ last'.ok /\ CastId(last'.id1) = i
       /\ (last'.op = "update" /\ last'.ok)
             => /\ HasUpdatedAt(last'.docs[1])
                /\ last'.docs[1]["updatedAt"] >= last'.docs[1]["createdAt"]
                /\ HasUpdatedAt(messages'[CastId(last'.id1)])]_vars

\* ---------------------------------------------------------------- C10
\* C10: every stored message has a content that is non-empty and equal to its
\* own trimmed form.
C10_ContentTrimmed ==
    \A i \in DOMAIN messages :
        /\ messages[i]["content"] # <<>>
        /\ Trim(messages[i]["content"]) = messages[i]["content"]

\* the owner of a stored message tried to update it with a blank content
C10_Witness ==
    /\ last.op = "update"
    /\ Stored(messages, last.id1)
    /\ IsOwner(messages, last.id1, last.id2)
    /\ last.content.type = "string"
    /\ ~NonBlank(last.content)
    /\ last.err = ErrContent

\* ---------------------------------------------------------------- C11
\* the fields a message got from the sendMessage call that created it
CreationFields == {"_id", "sender", "receiver", "read", "createdAt"}

\* C11: no step changes sender, receiver, read or createdAt of a stored
\* message: a step leaves the collection as it is (a get always does), or it
\* changes, in the messages it keeps, at most content (and updatedAt), adds or
\* drops no creation field, and leaves read false in every stored message.
C11_CreationFieldsFrozen ==
    [][\/ messages' = messages
       \/ /\ last'.op # "get"
          /\ \A i \in DOMAIN messages' :
                /\ CreationFields \subseteq DOMAIN messages'[i]
                /\ messages'[i]["read"] = FALSE
                /\ i \in DOMAIN messages =>
                      /\ \A f \in CreationFields : messages'[i][f] = messages[i][f]
                      /\ DOMAIN messages'[i]
                            \subseteq (DOMAIN messages[i]) \cup {"updatedAt"}]_vars

\* the owner updated a message created before the current time
C11_Witness ==
    /\ last.op = "update"
    /\ last.ok
    /\ messages[CastId(last.id1)]["createdAt"] < now
    /\ messages[CastId(last.id1)]["content"] = Trim(last.content.str)

\* ================================================ concurrent update / delete
\* Several requests are served at once.  A call of updateMessage or
\* deleteMessage validates its arguments and then awaits one store operation
\* (findOneAndUpdate / findOneAndDelete), which the store executes as one
\* step; calls of different requests interleave at these steps.  Here last
\* holds one call record per request.
Procs == {"p1", "p2"}

\* the call awaits the store
ErrPending == "pending"
Pending(op, id1, id2, content) ==
    Call(op, id1, id2, content, Failure(ErrPending, <<>>))

\* the inputs of the concurrent calls
ConcUsers    == {"u1", "u2"}
ConcReceiver == "u2"
ConcSent     == [type |-> "string", str |-> <<"a", " ", "b">>, num |-> 0]
ConcContents == {[type |-> "string", str |-> <<" ", "a", " ">>, num |-> 0]}

InitConc ==
    /\ users \in UserConfigs
    /\ messages = <<>>
    /\ nextId = 1
    /\ now = 0
    /\ removed = <<>>
    /\ last = [p \in Procs |-> Idle]

\* a completed sendMessage call to ConcReceiver, made at the current time
ConcSend(senderId) ==
    /\ nextId <= MaxMsgs
    /\ LET r == sendMessage(messages, senderId, ConcReceiver, ConcSent,
                            AllMsgIds[nextId], now)
       IN  /\ r.ok
           /\ messages' = r.store
           /\ nextId' = nextId + 1
           /\ UNCHANGED <<users, now, removed, last>>

\* request p calls updateMessage, which reaches its await
BeginUpdate(p, messageId, newContent, senderId) ==
    /\ last[p].op = "idle"
    /\ last' = [last EXCEPT ![p] = Pending("update", messageId, senderId, newContent)]
    /\ UNCHANGED <<users, messages, nextId, now, removed>>

\* request p calls deleteMessage, which reaches its await
BeginDelete(p, messageId, senderId) ==
    /\ last[p].op = "idle"
    /\ last' = [last EXCEPT ![p] = Pending("delete", messageId, senderId, NoContent)]
    /\ UNCHANGED <<users, messages, nextId, now, removed>>

\* the store executes the findOneAndUpdate of request p
CommitUpdate(p) ==
    /\ last[p].op = "update"
    /\ last[p].err = ErrPending
    /\ \E t \in Clock :
        LET r == updateMessage(messages, last[p].id1, last[p].content, last[p].id2, t)
        IN  /\ messages' = r.store
            /\ now' = IF r.ok THEN t ELSE now
            /\ last' = [last EXCEPT ![p] =
                           Call("update", last[p].id1, last[p].id2, last[p].content, r)]
            /\ UNCHANGED <<users, nextId, removed>>

\* the store executes the findOneAndDelete of request p
CommitDelete(p) ==
    /\ last[p].op = "delete"
    /\ last[p].err = ErrPending
    /\ LET r == deleteMessage(messages, last[p].id1, last[p].id2)
       IN  /\ messages' = r.store
           /\ removed' = IF r.ok
                         THEN [i \in (DOMAIN removed) \cup {r.docs[1]["_id"]} |->
                                  IF i = r.docs[1]["_id"]
                                  THEN r.docs[1]["sender"]["_id"]
                                  ELSE removed[i]]
                         ELSE removed
           /\ last' = [last EXCEPT ![p] =
                          Call("delete", last[p].id1, last[p].id2, NoContent, r)]
           /\ UNCHANGED <<users, nextId, now>>

\* request p has answered
Return(p) ==
    /\ last[p].op # "idle"
    /\ last[p].err # ErrPending
    /\ last' = [last EXCEPT ![p] = Idle]
    /\ UNCHANGED <<users, messages, nextId, now, removed>>

NextConc ==
    \/ \E s \in ConcUsers : ConcSend(s)
    \/ \E p \in Procs, m \in MsgIds, c \in ConcContents, s \in ConcUsers :
           BeginUpdate(p, m, c, s)
    \/ \E p \in Procs, m \in MsgIds, s \in ConcUsers : BeginDelete(p, m, s)
    \/ \E p \in Procs : CommitUpdate(p)
    \/ \E p \in Procs : CommitDelete(p)
    \/ \E p \in Procs : Return(p)

SpecConc == InitConc /\ [][NextConc]_vars

\* ---------------------------------------------------------------- C12
\* request p completes a call of kind op on message i in this step
Completes(p, op, i) ==
    /\ last[p].op = op
    /\ last[p].err = ErrPending
    /\ last'[p].err # ErrPending
    /\ CastId(last[p].id1) = i

\* C12: in every interleaving, a step changes or removes a stored message only
\* as the store operation of a call by its owner; a deleteMessage call
\* succeeds only on a message no call has deleted before, so at most one
\* succeeds; no updateMessage call succeeds on a message a call has deleted;
\* a deleted message is never stored again.
C12_AtomicOwnership ==
    [][/\ \A i \in DOMAIN messages :
             (i \notin DOMAIN messages' \/ messages'[i] # messages[i])
                => \E p \in Procs :
                      /\ Completes(p, "update", i) \/ Completes(p, "delete", i)
                      /\ last'[p].ok
                      /\ CastId(last[p].id2) = messages[i]["sender"]
       /\ \A p \in Procs, i \in MsgIds :
             (Completes(p, "delete", i) /\ last'[p].ok)
                => /\ i \notin DOMAIN removed
                   /\ i \in DOMAIN removed'
                   /\ i \notin DOMAIN messages'
                   /\ \A q \in Procs \ {p} : last'[q] = last[q]
       /\ \A p \in Procs, i \in MsgIds :
             (Completes(p, "update", i) /\ last'[p].ok) => i \notin DOMAIN removed
       /\ \A i \in DOMAIN removed : i \notin DOMAIN messages']_vars

\* two requests of the owner raced to delete the same message: one call
\* succeeded, the other was answered not-found
C12_Witness ==
    /\ last["p1"].op = "delete" /\ last["p2"].op = "delete"
    /\ last["p1"].id1 = last["p2"].id1
    /\ last["p1"].id2 = last["p2"].id2
    /\ last["p1"].ok
    /\ last["p2"].err = ErrDelete

\* ================================================================== HTTP
\* a well-formed identifier that names no document
NoSuchId == "n0"

\* message.routes.ts: method, names of the path parameters, handler
Routes ==
    {[method |-> "POST",   params |-> <<"senderId", "recieverId">>, handler |-> "sendMessage"],
     [method |-> "GET",    params |-> <<"senderId", "recieverId">>, handler |-> "getMessagesBetweenUsers"],
     [method |-> "PUT",    params |-> <<"messageId">>,              handler |-> "updateMessage"],
     [method |-> "DELETE", params |-> <<"messageId">>,              handler |-> "deleteMessage"]}

\* the routes a request of this method and path matches
Matching(method, segs) ==
    {r \in Routes : r.method = method /\ Len(r.params) = Len(segs)}

\* req.params[name] under route r
Param(r, segs, name) ==
    IF \E k \in DOMAIN r.params : r.params[k] = name
    THEN segs[CHOOSE k \in DOMAIN r.params : r.params[k] = name]
    ELSE Undefined

\* the fragments the handlers search in error.message, per error text
Fragments(err) ==
    IF err \in {ErrMsgId, ErrSenderId} THEN {"invalido"}
    ELSE IF err \in {ErrSender, ErrReceiver} THEN {"no encontrado"}
    ELSE IF err \in {ErrUpdate, ErrDelete} THEN {"no encontrado", "no tienes permiso"}
    ELSE {}
\* error.message.includes(fragment)
Includes(err, fragment) == fragment \in Fragments(err)

\* an error of the persistence layer (connection lost, time-out)
ErrStore == "connection timed out"
\* the errors a service call throws before it reaches the store
LocalErrors == {ErrContent, ErrMsgId, ErrSenderId}
\* the outcomes of a service call, given that the store may fail
OrStoreFails(outcomes, store) ==
    outcomes \cup
        {Failure(ErrStore, store) : o \in {x \in outcomes : x.err \notin LocalErrors}}

\* UserModel.findOne({ _id: undefined, available: true }): the condition on
\* _id is dropped (any available user is found) or sent as null (none is)
FoundForUndefined ==
    {u \in UserIds : users[u] = "available"} \cup {NoSuchId}

\* sendMessage as the handler calls it: receiverId may be undefined
sendMessageCalls(store, senderId, receiverId, content, id, t) ==
    IF receiverId = Undefined
    THEN {sendMessage(store, senderId, x, content, id, t) : x \in FoundForUndefined}
    ELSE {sendMessage(store, senderId, receiverId, content, id, t)}

\* getMessagesBetweenUsers as the handler calls it: with both identifiers
\* undefined the conditions are dropped (every message matches) or sent as
\* null (none does)
getMessagesCalls(store, userId1, userId2) ==
    IF userId1 = Undefined /\ userId2 = Undefined
    THEN {Outcome(TRUE, NoError, [i \in DOMAIN q |-> Populate(q[i])], store) :
             q \in SortedSeqs(Docs(store))}
         \cup {Outcome(TRUE, NoError, <<>>, store)}
    ELSE getMessagesBetweenUsers(store, userId1, userId2)

\* a response: status, the error text of the body (or none), the documents
Response(status, err, docs, store) ==
    [status |-> status, err |-> err, docs |-> docs, store |-> store]

ErrRequired    == "content y senderId son requeridos"
ErrSenderIdReq == "senderId es requerido"
ErrNoMessages  == "No se encontraron mensajes entre estos usuarios"
ErrNoRoute     == "Cannot METHOD path"

\* controller sendMessage
httpSendMessage(store, r, segs, body, id, t) ==
    LET senderId   == Param(r, segs, "senderId")
        receiverId == Param(r, segs, "receiverId")
    IN  {IF o.ok THEN Response(201, NoError, o.docs, o.store)
         ELSE IF Includes(o.err, "no encontrado") THEN Response(404, o.err, <<>>, o.store)
         ELSE Response(400, o.err, <<>>, o.store) :
            o \in OrStoreFails(
                     sendMessageCalls(store, senderId, receiverId, body.content, id, t),
                     store)}

\* controller getMessagesBetweenUsers
httpGetMessagesBetweenUsers(store, r, segs) ==
    LET userId1 == Param(r, segs, "userId1")
        userId2 == Param(r, segs, "userId2")
    IN  {IF o.ok
         THEN IF Len(o.docs) = 0 THEN Response(404, ErrNoMessages, <<>>, o.store)
              ELSE Response(200, NoError, o.docs, o.store)
         ELSE IF Includes(o.err, "invalido") THEN Response(400, o.err, <<>>, o.store)
         ELSE Response(500, o.err, <<>>, o.store) :
            o \in OrStoreFails(getMessagesCalls(store, userId1, userId2), store)}

\* the catch block shared by the update and delete handlers
StatusOfError(err) ==
    IF Includes(err, "invalido") THEN 400
    ELSE IF Includes(err, "no tienes permiso") THEN 403
    ELSE IF Includes(err, "no encontrado") THEN 404
    ELSE 500

\* controller updateMessage
httpUpdateMessage(store, r, segs, body, t) ==
    LET messageId == Param(r, segs, "messageId")
    IN  IF ~Truthy(body.content) \/ body.senderId = Undefined
        THEN {Response(400, ErrRequired, <<>>, store)}
        ELSE {IF o.ok THEN Response(200, NoError, o.docs, o.store)
              ELSE Response(StatusOfError(o.err), o.err, <<>>, o.store) :
                 o \in OrStoreFails(
                          {updateMessage(store, messageId, body.content, body.senderId, t)},
                          store)}

\* controller deleteMessage
httpDeleteMessage(store, r, segs, body) ==
    LET messageId == Param(r, segs, "messageId")
    IN  IF body.senderId = Undefined
        THEN {Response(400, ErrSenderIdReq, <<>>, store)}
        ELSE {IF o.ok THEN Response(200, NoError, o.docs, o.store)
              ELSE Response(StatusOfError(o.err), o.err, <<>>, o.store) :
                 o \in OrStoreFails({deleteMessage(store, messageId, body.senderId)}, store)}

\* the router: the responses to a request; without a matching route the
\* framework answers 404
Serve(store, method, segs, body, id, t) ==
    IF Matching(method, segs) = {} THEN {Response(404, ErrNoRoute, <<>>, store)}
    ELSE LET r == CHOOSE x \in Matching(method, segs) : TRUE
         IN  IF r.handler = "sendMessage"
                THEN httpSendMessage(store, r, segs, body, id, t)
             ELSE IF r.handler = "getMessagesBetweenUsers"
                THEN httpGetMessagesBetweenUsers(store, r, segs)
             ELSE IF r.handler = "updateMessage"
                THEN httpUpdateMessage(store, r, segs, body, t)
             ELSE httpDeleteMessage(store, r, segs, body)

\* the request and its response: id1, id2 are the path segments (id2 the
\* senderId of the body when the path has one segment)
Exchange(method, segs, body, resp) ==
    [op |-> method,
     id1 |-> segs[1],
     id2 |-> IF Len(segs) = 2 THEN segs[2] ELSE body.senderId,
     content |-> body.content,
     ok |-> resp.status < 300,
     err |-> resp.err,
     docs |-> resp.docs,
     status |-> resp.status]

Body(content, senderId) == [content |-> content, senderId |-> senderId]
BodySenderIds == UserIdInputs \cup {Undefined}

\* a request is served; storeUp: the persistence layer answers every call.
\* The requests arrive within one tick of the clock: new Date() is now.
Request(method, segs, body, storeUp) ==
    /\ last.op = "idle"
    /\ \E resp \in Serve(messages, method, segs, body, AllMsgIds[nextId], now) :
            /\ storeUp => resp.err # ErrStore
            /\ resp.status = 201 => nextId <= MaxMsgs
            /\ messages' = resp.store
            /\ nextId' = IF resp.status = 201 THEN nextId + 1 ELSE nextId
            /\ removed' = IF method = "DELETE" /\ resp.status = 200
                          THEN [i \in (DOMAIN removed) \cup {resp.docs[1]["_id"]} |->
                                   IF i = resp.docs[1]["_id"]
                                   THEN resp.docs[1]["sender"]["_id"]
                                   ELSE removed[i]]
                          ELSE removed
            /\ last' = Exchange(method, segs, body, resp)
            /\ UNCHANGED <<users, now>>

\* the bodies of the documented update request: a text and a user id
PatchBodies ==
    {Body(c, s) : c \in {x \in ContentInputs : x.type = "string"}, s \in UserIds}

HttpPost(senderId, receiverId, content, storeUp) ==
    Request("POST", <<senderId, receiverId>>, Body(content, Undefined), storeUp)
HttpGet(userId1, userId2, storeUp) ==
    Request("GET", <<userId1, userId2>>, Body(NoContent, Undefined), storeUp)
HttpPut(messageId, content, senderId, storeUp) ==
    Request("PUT", <<messageId>>, Body(content, senderId), storeUp)
HttpPatch(messageId, body, storeUp) ==
    Request("PATCH", <<messageId>>, body, storeUp)
HttpDelete(messageId, senderId, storeUp) ==
    Request("DELETE", <<messageId>>, Body(NoContent, senderId), storeUp)

\* the requests, served by a persistence layer that answers every call
NextHttp ==
    \/ \E s, r \in UserIdInputs, c \in ContentInputs : HttpPost(s, r, c, TRUE)
    \/ \E a, b \in UserIdInputs : HttpGet(a, b, TRUE)
    \/ \E m \in MsgIdInputs, c \in ContentInputs, s \in BodySenderIds :
          HttpPut(m, c, s, TRUE)
    \/ \E m \in MsgIds, b \in PatchBodies : HttpPatch(m, b, TRUE)
    \/ \E m \in MsgIdInputs, s \in BodySenderIds : HttpDelete(m, s, TRUE)
    \/ Respond

SpecHttp == Init /\ [][NextHttp]_vars

\* the requests, served by a persistence layer that may fail
NextHttpFaulty ==
    \/ \E s, r \in UserIdInputs, c \in ContentInputs, up \in BOOLEAN :
          HttpPost(s, r, c, up)
    \/ \E a, b \in UserIdInputs, up \in BOOLEAN : HttpGet(a, b, up)
    \/ \E m \in MsgIdInputs, c \in ContentInputs, s \in BodySenderIds, up \in BOOLEAN :
          HttpPut(m, c, s, up)
    \/ \E m \in MsgIds, b \in PatchBodies, up \in BOOLEAN : HttpPatch(m, b, up)
    \/ \E m \in MsgIdInputs, s \in BodySenderIds, up \in BOOLEAN : HttpDelete(m, s, up)
    \/ Respond

SpecHttpFaulty == Init /\ [][NextHttpFaulty]_vars

\* ---------------------------------------------------------------- C13
\* the request carries this identifier and it is well-formed
WellFormed(id) == id # Undefined /\ id # "zz"
\* the collection without the message of this _id
Without(i) == [j \in (DOMAIN messages) \ {i} |-> messages[j]]
\* what the client sees of a response
Seen(resp) == [status |-> resp.status, err |-> resp.err, docs |-> resp.docs]
\* what the caller sees of the outcome of a service call
Result(o) == [ok |-> o.ok, err |-> o.err, docs |-> o.docs]
\* the last request was a PUT or DELETE for a stored message by somebody
\* other than its sender
ByNonOwner ==
    /\ last.op \in {"PUT", "DELETE"}
    /\ Stored(messages, last.id1)
    /\ ~IsOwner(messages, last.id1, last.id2)

C14_NotFoundIs404 ==
    [][/\ (last'.op \in {"PUT", "DELETE"}
             /\ WellFormed(last'.id1) /\ CastId(last'.id1) \notin DOMAIN messages
             /\ WellFormed(last'.id2)
             /\ (last'.op = "PUT" => NonBlank(last'.content))
             /\ last'.err # ErrStore)
            => last'.status = 404
       /\ (last'.op \in {"PUT", "DELETE"} /\ last'.status = 403)
            => /\ Stored(messages, last'.id1)
               /\ ~IsOwner(messages, last'.id1, last'.id2)]_vars

\* ---------------------------------------------------------------- C15
\* C15: a PUT whose validation fails is answered 400; in particular a PUT
\* whose body has a senderId and a content that is non-empty but blank is
\* answered 400 and leaves the collection unchanged.
C15_ValidationIs400 ==
    [][/\ (last'.op = "PUT" /\ last'.err \in ValidationErrors \cup {ErrRequired})
            => last'.status = 400
       /\ (last'.op = "PUT" /\ last'.id2 # Undefined
             /\ last'.content.type = "string" /\ last'.content.str # <<>>
             /\ Trim(last'.content.str) = <<>>)
            => /\ last'.status = 400
               /\ messages' = messages]_vars

\* ---------------------------------------------------------------- C16
\* C16: a POST with non-blank content whose two path identifiers name
\* existing available users is answered 201 (unless the store itself fails)
\* with a stored message whose sender is the user of the first segment and
\* whose receiver is the user of the second.
C16_PostStoresPathUsers ==
    [][(last'.op = "POST" /\ nextId <= MaxMsgs
          /\ NonBlank(last'.content)
          /\ Available(last'.id1) /\ Available(last'.id2)
          /\ last'.err # ErrStore)
            => /\ last'.status = 201
               /\ Len(last'.docs) = 1
               /\ last'.docs[1]["sender"] = CastId(last'.id1)
               /\ last'.docs[1]["receiver"] = CastId(last'.id2)
               /\ last'.docs[1]["_id"] \in DOMAIN messages'
               /\ messages'[last'.docs[1]["_id"]] = last'.docs[1]]_vars

\* ---------------------------------------------------------------- C17
\* C17: a GET for two well-formed user identifiers is answered (unless the
\* store itself fails) 200 with exactly the messages exchanged between the two
\* users when there is one, and 404 exactly when there is none.
C17_GetReturnsPair ==
    (last.op = "GET" /\ WellFormed(last.id1) /\ WellFormed(last.id2)
        /\ last.err # ErrStore)
        => IF Exchanged(CastId(last.id1), CastId(last.id2)) # {}
           THEN /\ last.status = 200
                /\ {d["_id"] : d \in Range(last.docs)}
                      = {d["_id"] : d \in Exchanged(CastId(last.id1), CastId(last.id2))}
           ELSE last.status = 404

\* ---------------------------------------------------------------- C18
\* C18: a failure of the persistence layer during the POST, GET, PUT or DELETE
\* handler is answered 500.
C18_StoreFailureIs500 ==
    (last.op \in {"POST", "GET", "PUT", "DELETE"} /\ last.err = ErrStore)
        => last.status = 500

\* ---------------------------------------------------------------- C19
\* C19: when a GET names an identifier that is not well-formed,
\* getMessagesBetweenUsers called with the two identifiers fails with an error
\* that says the ID is invalid, and the handler answers the request 400.
C19_GetRejectsMalformedId ==
    (last.op = "GET" /\ (~WellFormed(last.id1) \/ ~WellFormed(last.id2)))
        => /\ \A o \in getMessagesBetweenUsers(messages, last.id1, last.id2) :
                 ~o.ok /\ Includes(o.err, "invalido")
           /\ last.status = 400

\* ---------------------------------------------------------------- C20
\* C20: a PATCH for a stored message with non-blank content and the senderId
\* of its owner is answered (unless the store itself fails) 200 with the
\* updated message, as the same request sent with PUT is.
C20_PatchUpdates ==
    [][(last'.op \in {"PUT", "PATCH"}
          /\ Stored(messages, last'.id1) /\ IsOwner(messages, last'.id1, last'.id2)
          /\ NonBlank(last'.content)
          /\ last'.err # ErrStore)
            => /\ last'.status = 200
               /\ Len(last'.docs) = 1
               /\ last'.docs[1]["content"] = Trim(last'.content.str)
               /\ messages'[CastId(last'.id1)]["content"] = Trim(last'.content.str)]_vars

====
